---- MODULE Spec2Model ----
(***************************************************************************)
(* Intel IGD legacy-mode passthrough quirks (hw/vfio/igd.c).               *)
(*                                                                         *)
(* The model follows the C source: the generation classifier, the stolen   *)
(* memory size calculator, OpRegion setup, LPC/host bridge setup and the   *)
(* two BAR quirk probes.  Config space, write masks and emulated bits are  *)
(* byte arrays; multi-byte stores are little-endian as pci_set_long and    *)
(* pci_set_quad make them.  What the kernel answers (region queries, raw   *)
(* reads) is chosen nondeterministically at the point where the code asks; *)
(* what the hardware GMCH register holds is part of the initial device.    *)
(***************************************************************************)
EXTENDS Integers, Sequences, FiniteSets, TLC

(***************************************************************************)
(* Machine integers.  A uint32_t or uint64_t is its base-256 digits, least *)
(* significant first: a sequence of 4 or 8 bytes, so that every operation  *)
(* keeps its C width and a value is stored to memory byte by byte.  Small  *)
(* quantities (offsets, generations, device IDs, field values) are         *)
(* ordinary integers.                                                      *)
(***************************************************************************)
RECURSIVE BitAnd(_, _)
BitAnd(a, b) ==
    IF a = 0 \/ b = 0 THEN 0
    ELSE (a % 2) * (b % 2) + 2 * BitAnd(a \div 2, b \div 2)

RECURSIVE BitOr(_, _)
BitOr(a, b) ==
    IF a = 0 THEN b
    ELSE IF b = 0 THEN a
    ELSE (IF a % 2 = 1 \/ b % 2 = 1 THEN 1 ELSE 0) + 2 * BitOr(a \div 2, b \div 2)

Pow2Table == <<1, 2, 4, 8, 16, 32, 64, 128>>

\* the w-byte vector of a natural n (n below 2^31)
RECURSIVE BV(_, _)
BV(n, w) == IF w = 0 THEN <<>> ELSE <<n % 256>> \o BV(n \div 256, w - 1)

\* the natural a byte vector denotes (for vectors whose value is below 2^31)
RECURSIVE BVVal(_)
BVVal(b) == IF b = <<>> THEN 0 ELSE b[1] + 256 * BVVal(Tail(b))

\* bit k (from 0) of a, 0 outside a's width
BVBit(a, k) ==
    IF k < 0 \/ k >= 8 * Len(a) THEN 0
    ELSE (a[(k \div 8) + 1] \div Pow2Table[(k % 8) + 1]) % 2
\* the byte made of the 8 bits of a from bit k on
BVByteAt(a, k) ==
    BVBit(a, k) + 2 * BVBit(a, k + 1) + 4 * BVBit(a, k + 2) + 8 * BVBit(a, k + 3)
    + 16 * BVBit(a, k + 4) + 32 * BVBit(a, k + 5) + 64 * BVBit(a, k + 6)
    + 128 * BVBit(a, k + 7)

RECURSIVE BVFill(_, _)
BVFill(w, d) == IF w = 0 THEN <<>> ELSE <<d>> \o BVFill(w - 1, d)
BVZero(w) == BVFill(w, 0)
BVOnes(w) == BVFill(w, 255)

RECURSIVE BVAndFrom(_, _, _)
BVAndFrom(a, b, i) ==
    IF i > Len(a) THEN <<>> ELSE <<BitAnd(a[i], b[i])>> \o BVAndFrom(a, b, i + 1)
RECURSIVE BVOrFrom(_, _, _)
BVOrFrom(a, b, i) ==
    IF i > Len(a) THEN <<>> ELSE <<BitOr(a[i], b[i])>> \o BVOrFrom(a, b, i + 1)
RECURSIVE BVNotFrom(_, _)
BVNotFrom(a, i) ==
    IF i > Len(a) THEN <<>> ELSE <<255 - a[i]>> \o BVNotFrom(a, i + 1)
\* bytes i.. of a shifted by n bits towards the high end (n < 0: the low end)
RECURSIVE BVShiftFrom(_, _, _)
BVShiftFrom(a, n, i) ==
    IF i > Len(a) THEN <<>>
    ELSE <<BVByteAt(a, 8 * (i - 1) - n)>> \o BVShiftFrom(a, n, i + 1)
RECURSIVE BVCastFrom(_, _, _)
BVCastFrom(a, w, i) ==
    IF i > w THEN <<>>
    ELSE <<IF i <= Len(a) THEN a[i] ELSE 0>> \o BVCastFrom(a, w, i + 1)

BVAnd(a, b) == BVAndFrom(a, b, 1)
BVOr(a, b) == BVOrFrom(a, b, 1)
BVNot(a) == BVNotFrom(a, 1)
\* a << n and a >> n at a's width
BVShl(a, n) == BVShiftFrom(a, n, 1)
BVShr(a, n) == BVShiftFrom(a, -n, 1)
\* conversion to a wider or narrower unsigned type
BVCast(a, w) == BVCastFrom(a, w, 1)

\* a + b with carry c, from byte i on
RECURSIVE BVAddFrom(_, _, _, _)
BVAddFrom(a, b, i, c) ==
    IF i > Len(a) THEN <<>>
    ELSE <<(a[i] + b[i] + c) % 256>>
         \o BVAddFrom(a, b, i + 1, (a[i] + b[i] + c) \div 256)
\* a * d for one byte d, with carry c, from byte i on
RECURSIVE BVScaleFrom(_, _, _, _)
BVScaleFrom(a, d, i, c) ==
    IF i > Len(a) THEN <<>>
    ELSE <<(a[i] * d + c) % 256>>
         \o BVScaleFrom(a, d, i + 1, (a[i] * d + c) \div 256)
\* a + b, a - b, a * b modulo 2^(8 * Len(a))
BVAdd(a, b) == BVAddFrom(a, b, 1, 0)
BVSub(a, b) == BVAddFrom(a, BVNot(b), 1, 1)
RECURSIVE BVMulFrom(_, _, _)
BVMulFrom(a, b, i) ==
    IF i > Len(b) THEN BVZero(Len(a))
    ELSE IF b[i] = 0 THEN BVMulFrom(a, b, i + 1)
    ELSE BVAdd(BVShl(BVScaleFrom(a, b[i], 1, 0), 8 * (i - 1)), BVMulFrom(a, b, i + 1))
BVMul(a, b) == BVMulFrom(a, b, 1)
\* unsigned a < b
RECURSIVE BVLtFrom(_, _, _)
BVLtFrom(a, b, i) ==
    IF i = 0 THEN FALSE
    ELSE IF a[i] # b[i] THEN a[i] < b[i]
    ELSE BVLtFrom(a, b, i - 1)
BVLt(a, b) == BVLtFrom(a, b, Len(a))

\* 1 MiB as a 64-bit quantity (qemu/units.h: INT64_C(1) << 20)
MiB == BVShl(BV(1, 8), 20)

(***************************************************************************)
(* Register offsets and field layout (igd.c:109-117).                      *)
(***************************************************************************)
IGD_ASLS == 252
IGD_GMCH == 80
IGD_BDSM == 92
IGD_BDSM_GEN11 == 192

IGD_GMCH_GEN6_GMS_SHIFT == 3
IGD_GMCH_GEN6_GMS_MASK == 31
IGD_GMCH_GEN8_GMS_SHIFT == 8
IGD_GMCH_GEN8_GMS_MASK == 255

IGD_GGC_MMIO_OFFSET == 1081408
IGD_BDSM_MMIO_OFFSET == 1081536

(***************************************************************************)
(* igd_gen: device ID -> generation, -1 when unsupported.                  *)
(***************************************************************************)
\* the switch on (device_id & 0xff00), igd.c:73-106
igd_gen_table(device_id) ==
    LET hi == BitAnd(device_id, \hff00) IN
    CASE hi = \h0100 -> 6
      [] hi \in {\h0400, \h0a00, \h0c00, \h0d00, \h0f00} -> 7
      [] hi \in {\h1600, \h2200} -> 8
      [] hi \in {\h1900, \h3100, \h5900, \h3e00, \h9B00} -> 9
      [] hi \in {\h8A00, \h4500, \h4E00} -> 11
      [] hi \in {\h9A00, \h4C00, \h4600, \hA700} -> 12
      [] OTHER -> -1

\* the Broxton/Apollo Lake rule, bits 11:1, igd.c:69
igd_gen_is_bxt(device_id) == BitAnd(device_id, \hffe) = \ha84

\* variants of igd_gen: the table consulted first; 8 for an unlisted ID
igd_gen_table_first(device_id) ==
    IF igd_gen_table(device_id) # -1 THEN igd_gen_table(device_id)
    ELSE IF igd_gen_is_bxt(device_id) THEN 9 ELSE -1

igd_gen_default8(device_id) ==
    IF igd_gen_is_bxt(device_id) THEN 9
    ELSE IF igd_gen_table(device_id) = -1 THEN 8 ELSE igd_gen_table(device_id)

igd_gen(device_id) ==
    IF igd_gen_is_bxt(device_id) THEN 9 ELSE igd_gen_table(device_id)

(***************************************************************************)
(* igd_stolen_memory_size: bytes of stolen memory the GMCH value encodes.  *)
(***************************************************************************)
\* the GMS field as the code extracts it: 32-bit shift and mask, widened to
\* the uint64_t gms (igd.c:121-127)
igd_gms_field(gen, gmch) ==
    IF gen < 8
    THEN BVCast(BVAnd(BVShr(gmch, IGD_GMCH_GEN6_GMS_SHIFT),
                      BV(IGD_GMCH_GEN6_GMS_MASK, 4)), 8)
    ELSE BVCast(BVAnd(BVShr(gmch, IGD_GMCH_GEN8_GMS_SHIFT),
                      BV(IGD_GMCH_GEN8_GMS_MASK, 4)), 8)

\* variant: the gen 9 extended encoding applied from generation 8 on
igd_stolen_memory_size_ext8(gen, gmch) ==
    LET gms == igd_gms_field(gen, gmch)
    IN  IF gen < 8 THEN BVMul(BVMul(gms, BV(32, 8)), MiB)
        ELSE IF BVLt(gms, BV(240, 8)) THEN BVMul(BVMul(gms, BV(32, 8)), MiB)
        ELSE BVMul(BVMul(BVAdd(BVSub(gms, BV(240, 8)), BV(1, 8)), BV(4, 8)), MiB)

igd_stolen_memory_size(gen, gmch) ==
    LET gms == igd_gms_field(gen, gmch)
    IN  IF gen < 9 THEN BVMul(BVMul(gms, BV(32, 8)), MiB)
        ELSE IF BVLt(gms, BV(240, 8)) THEN BVMul(BVMul(gms, BV(32, 8)), MiB)
        ELSE BVMul(BVMul(BVAdd(BVSub(gms, BV(240, 8)), BV(1, 8)), BV(4, 8)), MiB)

(***************************************************************************)
(* PCI constants the code uses (standard config header offsets, vendor     *)
(* and class IDs, bus addresses).                                          *)
(***************************************************************************)
PCI_VENDOR_ID == 0
PCI_DEVICE_ID == 2
PCI_REVISION_ID == 8
PCI_SUBSYSTEM_VENDOR_ID == 44
PCI_SUBSYSTEM_ID == 46
PCI_VENDOR_ID_INTEL == 32902
PCI_CLASS_DISPLAY_VGA == 768
PCI_DEVFN(slot, func) == (slot % 32) * 8 + (func % 8)

\* errno values the code returns negated
EIO == 5
ENODEV == 19

TYPE_VFIO_PCI == "vfio-pci"
TYPE_LPC_BRIDGE == "vfio-pci-igd-lpc-bridge"

(***************************************************************************)
(* Sizes and value sets the model draws from.                              *)
(***************************************************************************)
\* size in bytes of the OpRegion the kernel exposes
OpRegionSize == 2

\* config offsets of the passthrough device the quirks touch
CfgOffsets ==
    (IGD_GMCH .. IGD_GMCH + 3) \cup (IGD_BDSM .. IGD_BDSM + 3)
    \cup (IGD_BDSM_GEN11 .. IGD_BDSM_GEN11 + 7) \cup (IGD_ASLS .. IGD_ASLS + 3)

\* config offsets of a bridge that a field copy can reach
BridgeOffsets ==
    UNION {o .. o + 1 : o \in {PCI_VENDOR_ID, PCI_DEVICE_ID, PCI_REVISION_ID,
                               PCI_SUBSYSTEM_VENDOR_ID, PCI_SUBSYSTEM_ID}}

\* root bus addresses the code looks at, and one more
Devfns == {PCI_DEVFN(0, 0), PCI_DEVFN(2, 0), PCI_DEVFN(3, 0), PCI_DEVFN(31, 0)}

\* device IDs of the passthrough device: generations 7, 8, 9 and 11, and an
\* unsupported one
DeviceIds == {\h2a42, \h0412, \h1612, \h1912, \h8a52}

\* x-igd-gms property values
GmsValues == {0, \h10, \h11, \h40, \h41}

\* what the hardware GMCH register can hold, low byte first
GmchValues ==
    { <<\h00, \h10, \h00, \h00>>,   \* GMS (gen 8+) 0x10, VGA enabled
      <<\hfa, \he0, \h00, \h00>>,   \* GMS 0xe0 / 0x1f, VGA disabled
      <<\hc1, \hf5, \h01, \h80>> }  \* GMS 0xf5 / 0x18, high bits set

\* contents of the host's OpRegion, LPC bridge and host bridge config space
\* the byte array over the offsets S whose byte at o is base + step * o
RECURSIVE Array(_, _, _)
Array(S, base, step) ==
    IF S = {} THEN <<>>
    ELSE LET o == CHOOSE x \in S : TRUE
         IN  (o :> ((base + step * o) % 256)) @@ Array(S \ {o}, base, step)
PhysOpRegion == Array(1..OpRegionSize, 72, 1)
PhysLpcCfg == Array(BridgeOffsets, 128, 1)
PhysHostCfg == Array(BridgeOffsets, 64, 1)

(***************************************************************************)
(* State.                                                                  *)
(***************************************************************************)
VARIABLES
    vdev,     \* the VFIOPCIDevice: identity, flags, config/wmask/emulated bytes, quirks
    bus,      \* the root bus: devfn -> device (object name, type, config bytes)
    fw_cfg,   \* firmware configuration files: name -> bytes, <<>> when absent
    io,       \* the calls the last operation made, in order
    ret,      \* the last operation: which, its argument, where it returned, its locals
    probed,   \* the BAR quirk probes that have run
    fn        \* a pure function under test: name, input, output

vars == <<vdev, bus, fw_cfg, io, ret, probed, fn>>

NoDev == [obj |-> "none", type |-> "none", config |-> Array(BridgeOffsets, 0, 0)]
DevVfio == [obj |-> "vdev", type |-> TYPE_VFIO_PCI, config |-> Array(BridgeOffsets, 1, 0)]
DevOtherVga == [obj |-> "vga", type |-> "VGA", config |-> Array(BridgeOffsets, 2, 0)]
DevHostBridge == [obj |-> "host", type |-> "i440FX", config |-> Array(BridgeOffsets, 3, 0)]
DevForeignLpc == [obj |-> "isa", type |-> "ICH9-LPC", config |-> Array(BridgeOffsets, 4, 0)]
\* a companion bridge as pci_create_simple or the user's -device makes it
DevLpcBridge == [obj |-> "lpc", type |-> TYPE_LPC_BRIDGE, config |-> Array(BridgeOffsets, 0, 0)]

\* a root bus with the passthrough device at devfn
MkBus(devfn, at2, host, lpc) ==
    [d \in Devfns |->
        IF d = devfn THEN DevVfio
        ELSE IF d = PCI_DEVFN(0, 0) THEN host
        ELSE IF d = PCI_DEVFN(2, 0) THEN at2
        ELSE IF d = PCI_DEVFN(31, 0) THEN lpc
        ELSE NoDev]

BusLayouts ==
    {MkBus(PCI_DEVFN(2, 0), NoDev, DevHostBridge, l) : l \in {NoDev, DevForeignLpc, DevLpcBridge}}
    \cup {MkBus(PCI_DEVFN(2, 0), NoDev, NoDev, NoDev)}
    \cup {MkBus(PCI_DEVFN(3, 0), a, DevHostBridge, NoDev) : a \in {NoDev, DevOtherVga}}

NoFile == <<>>
FileNames == {"etc/igd-opregion", "etc/igd-bdsm-size"}

RetNone ==
    [op |-> "none", nr |-> -1, path |-> "none", ok |-> TRUE, gen |-> -1,
     gmch_read |-> <<>>, gmch |-> <<>>,
     opregion |-> "not_called", bridge |-> "not_called", err |-> ""]

FnIdle == [name |-> "none", in |-> <<>>, out |-> <<>>, done |-> FALSE]

\* the device as realize leaves it: config bytes cached from the hardware,
\* everything above the header writable, nothing of the quirk registers emulated
InitConfig == Array(CfgOffsets, 160, 1)
InitWmask == Array(CfgOffsets, 255, 0)
InitEmulated == Array(CfgOffsets, 0, 0)

\* a device as realize leaves it
Device(id, vendor, class, hot, rom, vga, gms, hw) ==
    [device_id |-> id, vendor_id |-> vendor, class_id |-> class,
     hotplugged |-> hot, romfile |-> rom, vga |-> vga, igd_gms |-> gms,
     hw_gmch |-> hw,
     rom_read_failed |-> FALSE, igd_opregion |-> <<>>,
     config |-> InitConfig, wmask |-> InitWmask,
     emulated_config_bits |-> InitEmulated, quirks |-> <<>>]

\* an Intel VGA device at 00:02.0 of a machine with a host bridge and nothing
\* at 1f.0, of every device ID, x-igd-gms value and hardware GMCH content
SizingMachines ==
    {[vdev |-> Device(id, PCI_VENDOR_ID_INTEL, PCI_CLASS_DISPLAY_VGA,
                      FALSE, TRUE, TRUE, gms, hw),
      bus |-> MkBus(PCI_DEVFN(2, 0), NoDev, DevHostBridge, NoDev)]
     : id \in DeviceIds, gms \in GmsValues, hw \in GmchValues}

\* a Skylake device of every vendor, class and flag in every bus layout
GatingMachines ==
    {[vdev |-> Device(\h1912, vendor, class, hot, rom, vga, 0,
                      <<\h00, \h10, \h00, \h00>>),
      bus |-> b]
     : vendor \in {PCI_VENDOR_ID_INTEL, \h10de},
       class \in {PCI_CLASS_DISPLAY_VGA, \h0380},
       hot \in BOOLEAN, rom \in BOOLEAN, vga \in BOOLEAN, b \in BusLayouts}

InitMachine ==
    /\ \E i \in SizingMachines \cup GatingMachines :
         vdev = i.vdev /\ bus = i.bus
    /\ fw_cfg = [f \in FileNames |-> NoFile]
    /\ io = <<>>
    /\ ret = RetNone
    /\ probed = {}

Init == InitMachine /\ fn = FnIdle

(***************************************************************************)
(* Framework primitives the quirk code calls.                              *)
(***************************************************************************)
\* the machine an operation works on, its call log empty
Machine == [vdev |-> vdev, bus |-> bus, fw_cfg |-> fw_cfg, io |-> <<>>]

Log(m, call) == [m EXCEPT !.io = Append(m.io, call)]
Log2(m, call1, call2) == [m EXCEPT !.io = Append(Append(m.io, call1), call2)]

\* sequencing: the outcomes of K on the value of v, v computed once
Then(v, K(_)) == UNION {K(x) : x \in {v}}

\* arr with bytes stored from offset off on
RECURSIVE SetBytesFrom(_, _, _, _)
SetBytesFrom(arr, off, bytes, i) ==
    IF i > Len(bytes) THEN arr
    ELSE SetBytesFrom([arr EXCEPT ![off + i - 1] = bytes[i]], off, bytes, i + 1)
SetBytes(arr, off, bytes) == SetBytesFrom(arr, off, bytes, 1)
RECURSIVE GetBytesFrom(_, _, _, _)
GetBytesFrom(arr, off, len, i) ==
    IF i > len THEN <<>> ELSE <<arr[off + i - 1]>> \o GetBytesFrom(arr, off, len, i + 1)
GetBytes(arr, off, len) == GetBytesFrom(arr, off, len, 1)

\* little-endian stores and loads of 32 and 64 bits
pci_set_long(arr, off, val) == SetBytes(arr, off, BVCast(val, 4))
pci_set_quad(arr, off, val) == SetBytes(arr, off, BVCast(val, 8))
pci_get_long(arr, off) == GetBytes(arr, off, 4)
pci_get_quad(arr, off) == GetBytes(arr, off, 8)

\* a 4-byte config read: emulated bits from the cached config, the rest from
\* the device, whose register holds phys
vfio_pci_read_config(v, addr, phys) ==
    LET emu_bits == pci_get_long(v.emulated_config_bits, addr)
        emu_val == pci_get_long(v.config, addr)
    IN  BVOr(BVAnd(emu_val, emu_bits), BVAnd(phys, BVNot(emu_bits)))

vfio_pci_is(v, vendor) == v.vendor_id = vendor
vfio_is_vga(v) == v.class_id = PCI_CLASS_DISPLAY_VGA
pci_find_device(b, devfn) == b[devfn]
\* a uint64_t as it lies in memory after cpu_to_le64: low byte first
cpu_to_le64(val) == GetBytes(val, 1, 8)
fw_cfg_add_file(files, name, data) == [files EXCEPT ![name] = data]

\* what a region query can answer: an error, or a descriptor of some size
RegionInfos(sizes) ==
    {[ret |-> -1, size |-> 0]} \cup {[ret |-> 0, size |-> n] : n \in sizes}
\* what pread can answer for a request of len bytes: -1, a short count, or len
PreadResults(len) == {-1, len - 1, len}
\* errno after a pread that failed (set by the call) or came back short (left
\* as it was, whatever that is)
ErrnoAfter(r) == IF r < 0 THEN {EIO} ELSE {0, EIO}

(***************************************************************************)
(* vfio_pci_igd_opregion_init, vfio_pci_igd_setup_opregion.  Each returns  *)
(* the set of outcomes [m, ok, code, err] the kernel's answers allow.      *)
(***************************************************************************)
Outcome(m, ok, code, err) == [m |-> m, ok |-> ok, code |-> code, err |-> err]

\* the OpRegion published and the ASLS register armed
igd_opregion_publish(m, buf) ==
    [m EXCEPT !.io = Append(m.io, "fw_cfg_add_file:etc/igd-opregion"),
              !.fw_cfg = fw_cfg_add_file(m.fw_cfg, "etc/igd-opregion", buf),
              !.vdev.igd_opregion = buf,
              !.vdev.config = pci_set_long(m.vdev.config, IGD_ASLS, BVZero(4)),
              !.vdev.wmask = pci_set_long(m.vdev.wmask, IGD_ASLS, BVOnes(4)),
              !.vdev.emulated_config_bits = pci_set_long(m.vdev.emulated_config_bits, IGD_ASLS, BVOnes(4))]

\* variant: a short read taken for a full one
vfio_pci_igd_opregion_init_short_ok(m, info) ==
    UNION {
      IF r < 0
      THEN {Outcome([m EXCEPT !.io = m.io \o <<"g_malloc0", "pread:opregion", "g_free">>,
                              !.vdev.igd_opregion = <<>>],
                    FALSE, "read_failed", "failed to read IGD OpRegion")}
      ELSE {Outcome(igd_opregion_publish(Log2(m, "g_malloc0", "pread:opregion"),
                                         GetBytes(PhysOpRegion, 1, r)),
                    TRUE, "ok", "")}
      : r \in PreadResults(info.size)}

vfio_pci_igd_opregion_init(m, info) ==
    UNION {
      IF r # info.size
      THEN {Outcome([m EXCEPT !.io = m.io \o <<"g_malloc0", "pread:opregion", "g_free">>,
                              !.vdev.igd_opregion = <<>>],
                    FALSE, "read_failed", "failed to read IGD OpRegion")}
      ELSE {Outcome(igd_opregion_publish(Log2(m, "g_malloc0", "pread:opregion"),
                                         GetBytes(PhysOpRegion, 1, info.size)),
                    TRUE, "ok", "")}
      : r \in PreadResults(info.size)}

\* variant: the hotplug check after the region query
vfio_pci_igd_setup_opregion_late_check(m) ==
    UNION {
      Then(Log(m, "get_dev_region_info:opregion"), LAMBDA m1 :
        IF info.ret # 0
        THEN {Outcome(m1, FALSE, "no_region",
                      "Device does not supports IGD OpRegion feature")}
        ELSE IF m.vdev.hotplugged
        THEN {Outcome(m1, FALSE, "hotplugged",
                      "IGD OpRegion is not supported on hotplugged device")}
        ELSE vfio_pci_igd_opregion_init(m1, info))
      : info \in RegionInfos({OpRegionSize})}

vfio_pci_igd_setup_opregion(m) ==
    IF m.vdev.hotplugged
    THEN {Outcome(m, FALSE, "hotplugged",
                  "IGD OpRegion is not supported on hotplugged device")}
    ELSE UNION {
      Then(Log(m, "get_dev_region_info:opregion"), LAMBDA m1 :
        IF info.ret # 0
        THEN {Outcome(m1, FALSE, "no_region",
                      "Device does not supports IGD OpRegion feature")}
        ELSE vfio_pci_igd_opregion_init(m1, info))
      : info \in RegionInfos({OpRegionSize})}

(***************************************************************************)
(* The registers copied from the host's bridges, and the copy itself.      *)
(***************************************************************************)
igd_host_bridge_infos ==
    << [offset |-> PCI_REVISION_ID, len |-> 2],
       [offset |-> PCI_SUBSYSTEM_VENDOR_ID, len |-> 2],
       [offset |-> PCI_SUBSYSTEM_ID, len |-> 2] >>

igd_lpc_bridge_infos ==
    << [offset |-> PCI_VENDOR_ID, len |-> 2],
       [offset |-> PCI_DEVICE_ID, len |-> 2],
       [offset |-> PCI_REVISION_ID, len |-> 2],
       [offset |-> PCI_SUBSYSTEM_VENDOR_ID, len |-> 2],
       [offset |-> PCI_SUBSYSTEM_ID, len |-> 2] >>

\* one pread of a field into st.cfg: the bytes it got are stored, the call logged
igd_copy_pread(st, phys, tag, field, r) ==
    [cfg |-> SetBytes(st.cfg, field.offset,
                      GetBytes(phys, field.offset, IF r < 0 THEN 0 ELSE r)),
     io |-> Append(st.io, "pread:" \o tag)]

\* fields i.. of list read one by one straight into st.cfg; the outcomes are
\* [cfg, ret, io]: a count other than the field's length ends the copy with
\* -errno
RECURSIVE vfio_pci_igd_copy_from(_, _, _, _, _)
vfio_pci_igd_copy_from(st, phys, tag, list, i) ==
    IF i > Len(list) THEN {[cfg |-> st.cfg, ret |-> 0, io |-> st.io]}
    ELSE UNION {
           Then(igd_copy_pread(st, phys, tag, list[i], r), LAMBDA st1 :
             IF r # list[i].len
             THEN {[cfg |-> st1.cfg, ret |-> -e,
                    io |-> Append(st1.io, "error_report:IGD copy failed")]
                   : e \in ErrnoAfter(r)}
             ELSE vfio_pci_igd_copy_from(st1, phys, tag, list, i + 1))
           : r \in PreadResults(list[i].len)}

vfio_pci_igd_copy(m, pdev, phys, tag, list) ==
    vfio_pci_igd_copy_from([cfg |-> pdev.config, io |-> m.io], phys, tag, list, 1)

\* outcomes [m, ret]
vfio_pci_igd_host_init(m) ==
    IF pci_find_device(m.bus, PCI_DEVFN(0, 0)).obj = "none"
    THEN {[m |-> Log(m, "error_report:Can't find host bridge"), ret |-> -ENODEV]}
    ELSE {[m |-> [m EXCEPT !.io = c.io, !.bus[PCI_DEVFN(0, 0)].config = c.cfg],
           ret |-> c.ret]
          : c \in vfio_pci_igd_copy(m, pci_find_device(m.bus, PCI_DEVFN(0, 0)),
                                    PhysHostCfg, "host", igd_host_bridge_infos)}

\* the companion bridge created at 1f.0 when nothing is there
igd_lpc_create(m) ==
    IF pci_find_device(m.bus, PCI_DEVFN(31, 0)).obj = "none"
    THEN [m EXCEPT !.io = Append(m.io, "pci_create_simple:" \o TYPE_LPC_BRIDGE),
                   !.bus[PCI_DEVFN(31, 0)] = DevLpcBridge]
    ELSE m

vfio_pci_igd_lpc_init(m) ==
    Then(igd_lpc_create(m), LAMBDA m1 :
      {[m |-> [m1 EXCEPT !.io = c.io, !.bus[PCI_DEVFN(31, 0)].config = c.cfg],
        ret |-> c.ret]
       : c \in vfio_pci_igd_copy(m1, pci_find_device(m1.bus, PCI_DEVFN(31, 0)),
                                 PhysLpcCfg, "lpc", igd_lpc_bridge_infos)})

\* the tail of vfio_pci_igd_setup_lpc_bridge once both region descriptors are there
igd_setup_bridges(m) ==
    UNION {
      IF l.ret # 0
      THEN {Outcome(l.m, FALSE, "lpc_init_failed",
                    "Failed to create/modify LPC bridge for IGD")}
      ELSE {IF h.ret # 0
            THEN Outcome(h.m, FALSE, "host_init_failed",
                         "Failed to modify host bridge for IGD")
            ELSE Outcome(h.m, TRUE, "ok", "")
            : h \in vfio_pci_igd_host_init(l.m)}
      : l \in vfio_pci_igd_lpc_init(m)}

\* the region queries of vfio_pci_igd_setup_lpc_bridge
igd_query_bridge_regions(m) ==
    UNION {
      IF lpc.ret # 0
      THEN {Outcome(Log(m, "get_dev_region_info:lpc_cfg"), FALSE, "no_lpc_region",
                    "IGD LPC bridge access is not supported by kernel")}
      ELSE UNION {
             Then(Log2(m, "get_dev_region_info:lpc_cfg", "get_dev_region_info:host_cfg"),
                  LAMBDA m1 :
               IF host.ret # 0
               THEN {Outcome(m1, FALSE, "no_host_region",
                             "IGD host bridge access is not supported by kernel")}
               ELSE igd_setup_bridges(m1))
             : host \in RegionInfos({256})}
      : lpc \in RegionInfos({256})}

\* variant: the device at 1f.0 is looked at only after the bridges are set up
vfio_pci_igd_setup_lpc_bridge_late_conflict(m) ==
    IF m.vdev.hotplugged
    THEN {Outcome(m, FALSE, "hotplugged",
                  "IGD LPC is not supported on hotplugged device")}
    ELSE {IF pci_find_device(m.bus, PCI_DEVFN(31, 0)).obj # "none"
             /\ pci_find_device(m.bus, PCI_DEVFN(31, 0)).type # TYPE_LPC_BRIDGE
          THEN Outcome(o.m, FALSE, "conflict",
                       "Cannot create LPC bridge due to existing device at 1f.0")
          ELSE o
          : o \in igd_query_bridge_regions(m)}

vfio_pci_igd_setup_lpc_bridge(m) ==
    IF m.vdev.hotplugged
    THEN {Outcome(m, FALSE, "hotplugged",
                  "IGD LPC is not supported on hotplugged device")}
    ELSE IF pci_find_device(m.bus, PCI_DEVFN(31, 0)).obj # "none"
            /\ pci_find_device(m.bus, PCI_DEVFN(31, 0)).type # TYPE_LPC_BRIDGE
    THEN {Outcome(m, FALSE, "conflict",
                  "Cannot create LPC bridge due to existing device at 1f.0")}
    ELSE igd_query_bridge_regions(m)

(***************************************************************************)
(* vfio_probe_igd_bar0_quirk: the GGC and BDSM mirrors in BAR0.            *)
(* Outcomes are [m, r] with r the record kept in ret.                      *)
(***************************************************************************)
\* region indexes the probes are called with
BarIndexes == {0, 4}

Ret(op, nr, path, gen) ==
    [RetNone EXCEPT !.op = op, !.nr = nr, !.path = path, !.gen = gen]

igd_bar0_gate(m, nr) ==
    /\ vfio_pci_is(m.vdev, PCI_VENDOR_ID_INTEL)
    /\ vfio_is_vga(m.vdev)
    /\ nr = 0
    /\ pci_find_device(m.bus, PCI_DEVFN(2, 0)).obj = "vdev"

\* variant: generation 11 given the 4-byte register
igd_bar0_bdsm_mirror_le11(gen, nr) ==
    [name |-> "vfio-igd-bdsm-quirk", bar |-> nr, offset |-> IGD_BDSM_MMIO_OFFSET,
     config_offset |-> IF gen <= 11 THEN IGD_BDSM ELSE IGD_BDSM_GEN11,
     size |-> IF gen <= 11 THEN 4 ELSE 8]

igd_bar0_bdsm_mirror(gen, nr) ==
    [name |-> "vfio-igd-bdsm-quirk", bar |-> nr, offset |-> IGD_BDSM_MMIO_OFFSET,
     config_offset |-> IF gen < 11 THEN IGD_BDSM ELSE IGD_BDSM_GEN11,
     size |-> IF gen < 11 THEN 4 ELSE 8]

igd_bar0_ggc_mirror(gen, nr) ==
    [name |-> "vfio-igd-ggc-quirk", bar |-> nr, offset |-> IGD_GGC_MMIO_OFFSET,
     config_offset |-> IGD_GMCH, size |-> 2]

\* both mirrors put at the head of the BAR's quirk list, GGC first
igd_bar0_install(m, gen, nr) ==
    [m EXCEPT !.io = m.io \o <<"memory_region_init_io:vfio-igd-ggc-quirk",
                            "memory_region_add_subregion_overlap:ggc",
                            "memory_region_init_io:vfio-igd-bdsm-quirk",
                            "memory_region_add_subregion_overlap:bdsm">>,
              !.vdev.quirks = <<igd_bar0_bdsm_mirror(gen, nr),
                                igd_bar0_ggc_mirror(gen, nr)>> \o m.vdev.quirks]

vfio_probe_igd_bar0_quirk(m, nr) ==
    IF ~igd_bar0_gate(m, nr) THEN {[m |-> m, r |-> Ret("bar0", nr, "gated", -1)]}
    ELSE Then(igd_gen(m.vdev.device_id), LAMBDA gen :
           IF gen < 6 THEN {[m |-> m, r |-> Ret("bar0", nr, "unsupported", gen)]}
           ELSE {[m |-> igd_bar0_install(m, gen, nr), r |-> Ret("bar0", nr, "done", gen)]})

(***************************************************************************)
(* vfio_probe_igd_bar4_quirk: the legacy-mode sequence.                    *)
(***************************************************************************)
\* variant: the device's bus address not looked at
igd_bar4_gate_any_slot(m, nr) ==
    /\ vfio_pci_is(m.vdev, PCI_VENDOR_ID_INTEL)
    /\ vfio_is_vga(m.vdev)
    /\ nr = 4

igd_bar4_gate(m, nr) ==
    /\ vfio_pci_is(m.vdev, PCI_VENDOR_ID_INTEL)
    /\ vfio_is_vga(m.vdev)
    /\ nr = 4
    /\ pci_find_device(m.bus, PCI_DEVFN(2, 0)).obj = "vdev"

\* variant: the override or-ed into the field
igd_set_gms_or(gmch, igd_gms, mask, shift) ==
    BVOr(gmch, BVShl(BV(igd_gms, 4), shift))

\* gmch with the field under mask << shift replaced by igd_gms
igd_set_gms(gmch, igd_gms, mask, shift) ==
    BVOr(BVAnd(gmch, BVNot(BVShl(BV(mask, 4), shift))), BVShl(BV(igd_gms, 4), shift))

\* variant: the upper limits exclusive
igd_apply_gms_strict(gen, gmch, igd_gms) ==
    IF igd_gms = 0 THEN [gmch |-> gmch, rejected |-> FALSE]
    ELSE IF gen < 8
    THEN IF igd_gms < 16
         THEN [gmch |-> igd_set_gms(gmch, igd_gms, IGD_GMCH_GEN6_GMS_MASK,
                                    IGD_GMCH_GEN6_GMS_SHIFT),
               rejected |-> FALSE]
         ELSE [gmch |-> gmch, rejected |-> TRUE]
    ELSE IF igd_gms < 64
         THEN [gmch |-> igd_set_gms(gmch, igd_gms, IGD_GMCH_GEN8_GMS_MASK,
                                    IGD_GMCH_GEN8_GMS_SHIFT),
               rejected |-> FALSE]
         ELSE [gmch |-> gmch, rejected |-> TRUE]

\* the x-igd-gms override: [gmch, rejected]
igd_apply_gms(gen, gmch, igd_gms) ==
    IF igd_gms = 0 THEN [gmch |-> gmch, rejected |-> FALSE]
    ELSE IF gen < 8
    THEN IF igd_gms <= 16
         THEN [gmch |-> igd_set_gms(gmch, igd_gms, IGD_GMCH_GEN6_GMS_MASK,
                                    IGD_GMCH_GEN6_GMS_SHIFT),
               rejected |-> FALSE]
         ELSE [gmch |-> gmch, rejected |-> TRUE]
    ELSE IF igd_gms <= 64
         THEN [gmch |-> igd_set_gms(gmch, igd_gms, IGD_GMCH_GEN8_GMS_MASK,
                                    IGD_GMCH_GEN8_GMS_SHIFT),
               rejected |-> FALSE]
         ELSE [gmch |-> gmch, rejected |-> TRUE]

\* variant: the 4-byte register at 0x5c whatever the generation
igd_bar4_emulate_bdsm_long(v, gen) ==
    [v EXCEPT !.config = pci_set_long(v.config, IGD_BDSM, BVZero(4)),
              !.wmask = pci_set_long(v.wmask, IGD_BDSM, BVOnes(4)),
              !.emulated_config_bits = pci_set_long(v.emulated_config_bits, IGD_BDSM, BVOnes(4))]

\* variant: generation 11 given the 4-byte register at 0x5c
igd_bar4_emulate_bdsm_le11(v, gen) ==
    IF gen <= 11
    THEN [v EXCEPT !.config = pci_set_long(v.config, IGD_BDSM, BVZero(4)),
                   !.wmask = pci_set_long(v.wmask, IGD_BDSM, BVOnes(4)),
                   !.emulated_config_bits = pci_set_long(v.emulated_config_bits, IGD_BDSM, BVOnes(4))]
    ELSE [v EXCEPT !.config = pci_set_quad(v.config, IGD_BDSM_GEN11, BVZero(8)),
                   !.wmask = pci_set_quad(v.wmask, IGD_BDSM_GEN11, BVOnes(8)),
                   !.emulated_config_bits = pci_set_quad(v.emulated_config_bits, IGD_BDSM_GEN11, BVOnes(8))]

\* the BDSM register made read-write and emulated
igd_bar4_emulate_bdsm(v, gen) ==
    IF gen < 11
    THEN [v EXCEPT !.config = pci_set_long(v.config, IGD_BDSM, BVZero(4)),
                   !.wmask = pci_set_long(v.wmask, IGD_BDSM, BVOnes(4)),
                   !.emulated_config_bits = pci_set_long(v.emulated_config_bits, IGD_BDSM, BVOnes(4))]
    ELSE [v EXCEPT !.config = pci_set_quad(v.config, IGD_BDSM_GEN11, BVZero(8)),
                   !.wmask = pci_set_quad(v.wmask, IGD_BDSM_GEN11, BVOnes(8)),
                   !.emulated_config_bits = pci_set_quad(v.emulated_config_bits, IGD_BDSM_GEN11, BVOnes(8))]

\* variant: the GMCH register left writable
igd_bar4_emulate_gmch_writable(v, gmch) ==
    [v EXCEPT !.config = pci_set_long(v.config, IGD_GMCH, gmch),
              !.emulated_config_bits = pci_set_long(v.emulated_config_bits, IGD_GMCH, BVOnes(4))]

\* the GMCH register made read-only and emulated
igd_bar4_emulate_gmch(v, gmch) ==
    [v EXCEPT !.config = pci_set_long(v.config, IGD_GMCH, gmch),
              !.wmask = pci_set_long(v.wmask, IGD_GMCH, BVZero(4)),
              !.emulated_config_bits = pci_set_long(v.emulated_config_bits, IGD_GMCH, BVOnes(4))]

\* the stolen memory size published and the registers emulated
igd_bar4_publish(m, gen, gmch) ==
    [m EXCEPT !.io = Append(m.io, "fw_cfg_add_file:etc/igd-bdsm-size"),
              !.fw_cfg = fw_cfg_add_file(m.fw_cfg, "etc/igd-bdsm-size",
                                         cpu_to_le64(igd_stolen_memory_size(gen, gmch))),
              !.vdev = igd_bar4_emulate_bdsm(igd_bar4_emulate_gmch(m.vdev, gmch), gen)]

\* from the override on
igd_bar4_finish(m, r, gen, gmch_read) ==
    Then(igd_apply_gms(gen, gmch_read, m.vdev.igd_gms), LAMBDA ov :
      {[m |-> igd_bar4_publish(
                IF ov.rejected
                THEN Log(m, "error_report:Invalid parameter x-igd-gms") ELSE m,
                gen, ov.gmch),
        r |-> [r EXCEPT !.path = "done", !.gmch = ov.gmch,
                        !.err = IF ov.rejected THEN "Invalid parameter x-igd-gms"
                                ELSE ""]]})

\* variant: the registers emulated and the size published before OpRegion setup
igd_bar4_setup_publish_first(m, r, gen, gmch_read) ==
    UNION {
      IF ~o.ok
      THEN {[m |-> Log(o.m, "error_report:" \o o.err),
             r |-> [r EXCEPT !.path = "opregion_failed", !.ok = FALSE,
                             !.opregion = o.code, !.err = o.err]]}
      ELSE UNION {
             IF ~b.ok
             THEN {[m |-> Log(b.m, "error_report:" \o b.err),
                    r |-> [r EXCEPT !.path = "bridge_failed", !.ok = FALSE,
                                    !.opregion = o.code, !.bridge = b.code,
                                    !.err = b.err]]}
             ELSE {[m |-> b.m,
                    r |-> [r EXCEPT !.path = "done", !.gmch = gmch_read,
                                    !.opregion = o.code, !.bridge = b.code]]}
             : b \in vfio_pci_igd_setup_lpc_bridge(o.m)}
      : o \in vfio_pci_igd_setup_opregion(igd_bar4_publish(m, gen, gmch_read))}

\* OpRegion setup, bridge setup and what follows
igd_bar4_setup(m, r, gen, gmch_read) ==
    UNION {
      IF ~o.ok
      THEN {[m |-> Log(o.m, "error_report:" \o o.err),
             r |-> [r EXCEPT !.path = "opregion_failed", !.ok = FALSE,
                             !.opregion = o.code, !.err = o.err]]}
      ELSE UNION {
             IF ~b.ok
             THEN {[m |-> Log(b.m, "error_report:" \o b.err),
                    r |-> [r EXCEPT !.path = "bridge_failed", !.ok = FALSE,
                                    !.opregion = o.code, !.bridge = b.code,
                                    !.err = b.err]]}
             ELSE igd_bar4_finish(b.m, [r EXCEPT !.opregion = o.code,
                                                 !.bridge = b.code],
                                  gen, gmch_read)
             : b \in vfio_pci_igd_setup_lpc_bridge(o.m)}
      : o \in vfio_pci_igd_setup_opregion(m)}

\* variant: VGA enabled again although it is already set up
igd_bar4_vga_always(m, r, gen, gmch) ==
    IF BVAnd(gmch, BV(2, 4)) = BVZero(4)
    THEN UNION {
           IF ~populated
           THEN {[m |-> Log2(m, "vfio_populate_vga",
                             "error_report:failed to enable VGA access"),
                  r |-> [r EXCEPT !.path = "vga_failed", !.ok = FALSE]]}
           ELSE Then([m EXCEPT !.io = Append(m.io, "vfio_populate_vga"),
                               !.vdev.vga = TRUE],
                     LAMBDA m1 : igd_bar4_setup(m1, r, gen, gmch))
           : populated \in BOOLEAN}
    ELSE igd_bar4_setup(m, r, gen, gmch)

\* VGA enabled when the GMCH read has VGA Disable clear and VGA is not yet set up
igd_bar4_vga(m, r, gen, gmch) ==
    IF BVAnd(gmch, BV(2, 4)) = BVZero(4) /\ ~m.vdev.vga
    THEN UNION {
           IF ~populated
           THEN {[m |-> Log2(m, "vfio_populate_vga",
                             "error_report:failed to enable VGA access"),
                  r |-> [r EXCEPT !.path = "vga_failed", !.ok = FALSE]]}
           ELSE Then([m EXCEPT !.io = Append(m.io, "vfio_populate_vga"),
                               !.vdev.vga = TRUE],
                     LAMBDA m1 : igd_bar4_setup(m1, r, gen, gmch))
           : populated \in BOOLEAN}
    ELSE igd_bar4_setup(m, r, gen, gmch)

\* the GMCH read
igd_bar4_read_gmch(m, gen, nr) ==
    Then(vfio_pci_read_config(m.vdev, IGD_GMCH, m.vdev.hw_gmch), LAMBDA gmch :
      Then(Log(m, "vfio_pci_read_config:GMCH"), LAMBDA m1 :
        Then([Ret("bar4", nr, "running", gen) EXCEPT !.gmch_read = gmch], LAMBDA r :
          igd_bar4_vga(m1, r, gen, gmch))))

\* variant: the hot-added device left without the marker
igd_bar4_rom_no_marker(m, gen, nr) ==
    UNION {
      Then(Log(m, "vfio_get_region_info:rom"), LAMBDA m1 :
        IF no_rom
        THEN {[m |-> Log(m1, "error_report:no ROM, legacy mode disabled"),
               r |-> [Ret("bar4", nr, "no_rom", gen) EXCEPT !.ok = FALSE]]}
        ELSE IF m.vdev.hotplugged
        THEN {[m |-> Log(m1, "error_report:hotplugged, ROM disabled"),
               r |-> [Ret("bar4", nr, "hotplugged", gen) EXCEPT !.ok = FALSE]]}
        ELSE igd_bar4_read_gmch(m1, gen, nr))
      : no_rom \in {(rom.ret # 0 \/ rom.size = 0) /\ ~m.vdev.romfile
                    : rom \in RegionInfos({0, 65536})}}

\* the ROM and hotplug checks
igd_bar4_rom(m, gen, nr) ==
    UNION {
      Then(Log(m, "vfio_get_region_info:rom"), LAMBDA m1 :
        IF no_rom
        THEN {[m |-> Log(m1, "error_report:no ROM, legacy mode disabled"),
               r |-> [Ret("bar4", nr, "no_rom", gen) EXCEPT !.ok = FALSE]]}
        ELSE IF m.vdev.hotplugged
        THEN {[m |-> [m1 EXCEPT !.io = Append(m1.io, "error_report:hotplugged, ROM disabled"),
                                !.vdev.rom_read_failed = TRUE],
               r |-> [Ret("bar4", nr, "hotplugged", gen) EXCEPT !.ok = FALSE]]}
        ELSE igd_bar4_read_gmch(m1, gen, nr))
      : no_rom \in {(rom.ret # 0 \/ rom.size = 0) /\ ~m.vdev.romfile
                    : rom \in RegionInfos({0, 65536})}}

vfio_probe_igd_bar4_quirk(m, nr) ==
    IF ~igd_bar4_gate(m, nr) THEN {[m |-> m, r |-> Ret("bar4", nr, "gated", -1)]}
    ELSE Then(igd_gen(m.vdev.device_id), LAMBDA gen :
           IF gen = -1
           THEN {[m |-> Log(m, "error_report:unsupported in legacy mode"),
                  r |-> [Ret("bar4", nr, "unsupported", gen) EXCEPT !.ok = FALSE]]}
           ELSE igd_bar4_rom(m, gen, nr))

(***************************************************************************)
(* Actions: the probes run once each, for some region; OpRegion setup is   *)
(* also called on its own (the x-igd-opregion feature).                    *)
(***************************************************************************)
Commit(o) ==
    /\ vdev' = o.m.vdev
    /\ bus' = o.m.bus
    /\ fw_cfg' = o.m.fw_cfg
    /\ io' = o.m.io
    /\ ret' = o.r

Bar0Quirk ==
    /\ fn = FnIdle
    /\ "bar0" \notin probed
    /\ \E nr \in BarIndexes : \E m \in {Machine} :
         \E o \in vfio_probe_igd_bar0_quirk(m, nr) : Commit(o)
    /\ probed' = probed \cup {"bar0"}
    /\ UNCHANGED fn

Bar4Quirk ==
    /\ fn = FnIdle
    /\ "bar4" \notin probed
    /\ \E nr \in BarIndexes : \E m \in {Machine} :
         \E o \in vfio_probe_igd_bar4_quirk(m, nr) : Commit(o)
    /\ probed' = probed \cup {"bar4"}
    /\ UNCHANGED fn

SetupOpregion ==
    /\ fn = FnIdle
    /\ \E m \in {Machine} : \E o \in vfio_pci_igd_setup_opregion(m) :
         Commit([m |-> o.m,
                 r |-> [Ret("opregion", -1, o.code, -1) EXCEPT
                          !.ok = o.ok, !.opregion = o.code, !.err = o.err]])
    /\ UNCHANGED <<probed, fn>>

Next == Bar0Quirk \/ Bar4Quirk \/ SetupOpregion

Spec == Init /\ [][Next]_vars

(***************************************************************************)
(* vfio_pci_igd_setup_lpc_bridge called on its own, on every machine.      *)
(***************************************************************************)
SetupLpcBridge ==
    /\ fn = FnIdle
    /\ "bridge" \notin probed
    /\ \E m \in {Machine} : \E o \in vfio_pci_igd_setup_lpc_bridge(m) :
         Commit([m |-> o.m,
                 r |-> [Ret("bridge", -1, o.code, -1) EXCEPT
                          !.ok = o.ok, !.bridge = o.code, !.err = o.err]])
    /\ probed' = probed \cup {"bridge"}
    /\ UNCHANGED fn

SpecBridge == Init /\ [][SetupLpcBridge]_vars

(***************************************************************************)
(* The pure functions applied to their inputs.                             *)
(***************************************************************************)
\* every uint16_t device ID
AllDeviceIds == 0 .. 65535

\* the generations igd_gen can answer
Generations == {6, 7, 8, 9, 11, 12}

\* GMCH values: every low byte and every second byte against the edge values
\* of the other, under all-zero and all-one upper halves
SizeGmchValues ==
    {<<b0, b1, hi, hi>> : b0 \in 0 .. 255, b1 \in {\h00, \hef, \hf0, \hff}, hi \in {0, 255}}
    \cup {<<b0, b1, hi, hi>> : b0 \in {\h00, \hff}, b1 \in 0 .. 255, hi \in {0, 255}}

\* a machine nothing is done to
InitQuiet ==
    /\ vdev = Device(\h1912, PCI_VENDOR_ID_INTEL, PCI_CLASS_DISPLAY_VGA,
                     FALSE, TRUE, TRUE, 0, <<\h00, \h10, \h00, \h00>>)
    /\ bus = MkBus(PCI_DEVFN(2, 0), NoDev, DevHostBridge, NoDev)
    /\ fw_cfg = [f \in FileNames |-> NoFile]
    /\ io = <<>>
    /\ ret = RetNone
    /\ probed = {}

InitGen ==
    /\ InitQuiet
    /\ \E id \in AllDeviceIds :
         fn = [name |-> "igd_gen", in |-> id, out |-> 0, done |-> FALSE]

igd_gen_call ==
    /\ fn.name = "igd_gen"
    /\ ~fn.done
    /\ fn' = [fn EXCEPT !.out = igd_gen(fn.in), !.done = TRUE]
    /\ UNCHANGED <<vdev, bus, fw_cfg, io, ret, probed>>

SpecGen == InitGen /\ [][igd_gen_call]_vars

InitSize ==
    /\ InitQuiet
    /\ \E gen \in Generations : \E gmch \in SizeGmchValues :
         fn = [name |-> "igd_stolen_memory_size", in |-> <<gen, gmch>>,
               out |-> BVZero(8), done |-> FALSE]

igd_stolen_memory_size_call ==
    /\ fn.name = "igd_stolen_memory_size"
    /\ ~fn.done
    /\ fn' = [fn EXCEPT !.out = igd_stolen_memory_size(fn.in[1], fn.in[2]),
                        !.done = TRUE]
    /\ UNCHANGED <<vdev, bus, fw_cfg, io, ret, probed>>

SpecSize == InitSize /\ [][igd_stolen_memory_size_call]_vars

(***************************************************************************)
(* Properties.  The expected values are computed here with plain integer   *)
(* arithmetic, apart from the operators above.                             *)
(***************************************************************************)
\* the generation listed for a top byte, -1 when the byte is not listed
ListedGen(top) ==
    CASE top = \h01 -> 6
      [] top \in {\h04, \h0a, \h0c, \h0d, \h0f} -> 7
      [] top \in {\h16, \h22} -> 8
      [] top \in {\h19, \h31, \h59, \h3e, \h9b} -> 9
      [] top \in {\h8a, \h45, \h4e} -> 11
      [] top \in {\h9a, \h4c, \h46, \ha7} -> 12
      [] OTHER -> -1
TopByte(id) == (id \div 256) % 256
\* the 0xa84 rule: bits 11..1 of the ID are those of 0xa84
MatchesA84(id) == (id \div 2) % 2048 = \ha84 \div 2

\* the GMS field of a little-endian GMCH value
GmsField(gen, gmch) == IF gen < 8 THEN (gmch[1] \div 8) % 32 ELSE gmch[2]
\* the stolen memory size in MiB
SizeMiB(gen, gmch) ==
    LET f == GmsField(gen, gmch)
    IN  IF gen < 9 \/ f < \hf0 THEN f * 32 ELSE (f - \hf0 + 1) * 4
\* n MiB (n < 2^20) as a little-endian 64-bit byte count
Bytes64MiB(n) ==
    <<0, 0, (n * 16) % 256, (n \div 16) % 256, (n \div 4096) % 256, 0, 0, 0>>

\* whether a call log has one of calls
CalledIn(log, calls) == \E i \in 1 .. Len(log) : log[i] \in calls

GenDone == fn.name = "igd_gen" /\ fn.done
SizeDone == fn.name = "igd_stolen_memory_size" /\ fn.done
Bar4Done == ret.op = "bar4" /\ ret.path = "done"
BdsmSizeFile == fw_cfg["etc/igd-bdsm-size"]

\* C1 as stated: every device ID whose top byte is listed gets the listed
\* generation, and every ID matching neither the table nor the 0xa84 rule gets -1.
C1_TopByteAlwaysWins ==
    GenDone =>
      /\ ListedGen(TopByte(fn.in)) # -1 => fn.out = ListedGen(TopByte(fn.in))
      /\ (ListedGen(TopByte(fn.in)) = -1 /\ ~MatchesA84(fn.in)) => fn.out = -1

\* C1, amended: every device ID that does not match the 0xa84 rule gets the
\* generation listed for its top byte, or -1 when its top byte is not listed;
\* igd_gen answers for every 16-bit ID with a generation or -1.
C1_TableOutsideA84 ==
    GenDone =>
      /\ ~MatchesA84(fn.in) => fn.out = ListedGen(TopByte(fn.in))
      /\ fn.out \in Generations \cup {-1}

C1_Witness == GenDone /\ fn.in = \h1912 /\ fn.out = 9

\* C2: every device ID matching the 0xa84 rule is generation 9 whatever its
\* top byte; 0x0a84 is 9, not the 7 of the 0x0a00 rule.
C2_A84First ==
    GenDone =>
      /\ MatchesA84(fn.in) => fn.out = 9
      /\ fn.in = \h0a84 => fn.out = 9 /\ ListedGen(TopByte(fn.in)) = 7

C2_Witness == GenDone /\ fn.in = \h0a84 /\ fn.out = 9

\* C3: igd_stolen_memory_size is f * 32 MiB when generation < 9 or f < 0xF0
\* and (f - 0xF0 + 1) * 4 MiB otherwise, f being bits 7..3 of gmch below
\* generation 8 and bits 15..8 from generation 8 on; exact as a 64-bit value.
C3_StolenSize ==
    SizeDone => fn.out = Bytes64MiB(SizeMiB(fn.in[1], fn.in[2]))

C3_Witness ==
    /\ SizeDone
    /\ fn.in[1] = 9
    /\ fn.in[2][2] = \hf5
    /\ fn.out = Bytes64MiB(24)

\* C4: when the region-4 handler has completed, "etc/igd-bdsm-size" is the
\* little-endian 64-bit stolen size of the final GMCH value g, the GMCH
\* register at 0x50 holds g, read-only and emulated, and the guest's read of
\* the register decodes to the published size.
C4_SizeMatchesGmch ==
    Bar4Done =>
      /\ BdsmSizeFile = cpu_to_le64(igd_stolen_memory_size(ret.gen, ret.gmch))
      /\ pci_get_long(vdev.config, IGD_GMCH) = ret.gmch
      /\ pci_get_long(vdev.wmask, IGD_GMCH) = <<0, 0, 0, 0>>
      /\ pci_get_long(vdev.emulated_config_bits, IGD_GMCH) = <<255, 255, 255, 255>>
      /\ BdsmSizeFile =
           Bytes64MiB(SizeMiB(ret.gen,
                              vfio_pci_read_config(vdev, IGD_GMCH, vdev.hw_gmch)))

C4_Witness ==
    /\ Bar4Done
    /\ vdev.igd_gms = \h40
    /\ ret.gen = 11
    /\ ret.gmch # ret.gmch_read
    /\ BdsmSizeFile = Bytes64MiB(2048)

\* C5: when the region-4 handler has completed, BDSM is zero, fully writable
\* and fully emulated: 4 bytes at 0x5c below generation 11, 8 bytes at 0xc0
\* from generation 11 on, the other location as it was; device 0x1912 with
\* GMS 0x10 publishes 512 MiB.
C5_Bdsm ==
    Bar4Done =>
      /\ IF ret.gen < 11
         THEN /\ pci_get_long(vdev.config, IGD_BDSM) = <<0, 0, 0, 0>>
              /\ pci_get_long(vdev.wmask, IGD_BDSM) = <<255, 255, 255, 255>>
              /\ pci_get_long(vdev.emulated_config_bits, IGD_BDSM) = <<255, 255, 255, 255>>
              /\ pci_get_quad(vdev.config, IGD_BDSM_GEN11) = pci_get_quad(InitConfig, IGD_BDSM_GEN11)
              /\ pci_get_quad(vdev.wmask, IGD_BDSM_GEN11) = pci_get_quad(InitWmask, IGD_BDSM_GEN11)
              /\ pci_get_quad(vdev.emulated_config_bits, IGD_BDSM_GEN11)
                   = pci_get_quad(InitEmulated, IGD_BDSM_GEN11)
         ELSE /\ pci_get_quad(vdev.config, IGD_BDSM_GEN11) = <<0, 0, 0, 0, 0, 0, 0, 0>>
              /\ pci_get_quad(vdev.wmask, IGD_BDSM_GEN11)
                   = <<255, 255, 255, 255, 255, 255, 255, 255>>
              /\ pci_get_quad(vdev.emulated_config_bits, IGD_BDSM_GEN11)
                   = <<255, 255, 255, 255, 255, 255, 255, 255>>
              /\ pci_get_long(vdev.config, IGD_BDSM) = pci_get_long(InitConfig, IGD_BDSM)
              /\ pci_get_long(vdev.wmask, IGD_BDSM) = pci_get_long(InitWmask, IGD_BDSM)
              /\ pci_get_long(vdev.emulated_config_bits, IGD_BDSM)
                   = pci_get_long(InitEmulated, IGD_BDSM)
      /\ (vdev.device_id = \h1912 /\ ret.gmch[2] = \h10) =>
           /\ ret.gen = 9
           /\ BdsmSizeFile = Bytes64MiB(512)

C5_Witness ==
    /\ Bar4Done
    /\ vdev.device_id = \h1912
    /\ vdev.igd_gms = 0
    /\ ret.gmch[2] = \h10
    /\ BdsmSizeFile = Bytes64MiB(512)
    /\ pci_get_long(vdev.config, IGD_BDSM) = <<0, 0, 0, 0>>

\* the device is not the Intel VGA device found at 00:02.0
NotEligible ==
    \/ pci_find_device(bus, PCI_DEVFN(2, 0)).obj # "vdev"
    \/ vdev.vendor_id # PCI_VENDOR_ID_INTEL
    \/ vdev.class_id # PCI_CLASS_DISPLAY_VGA

\* C6: a probe of a device that is not the Intel VGA device at 00:02.0, or
\* for a region that is not the probe's own (0 for the region-0 probe, 4 for
\* the region-4 probe), changes nothing of the device, the bus or the
\* firmware configuration and makes no call.
C6_GatedIsNoOp ==
    [][(\/ ret'.op = "bar0" /\ (NotEligible \/ ret'.nr # 0)
        \/ ret'.op = "bar4" /\ (NotEligible \/ ret'.nr # 4))
       => /\ vdev' = vdev
          /\ bus' = bus
          /\ fw_cfg' = fw_cfg
          /\ io' = <<>>]_vars

C6_Witness ==
    /\ ret.op = "bar4"
    /\ ret.nr = 4
    /\ ret.path = "gated"
    /\ vdev.vendor_id = PCI_VENDOR_ID_INTEL
    /\ vdev.class_id = PCI_CLASS_DISPLAY_VGA
    /\ pci_find_device(bus, PCI_DEVFN(3, 0)).obj = "vdev"
    /\ io = <<>>

\* the largest x-igd-gms value a generation permits
GmsLimit(gen) == IF gen < 8 THEN \h10 ELSE \h40
InvalidGmsReport == {"error_report:Invalid parameter x-igd-gms"}

\* C7: x-igd-gms is in range up to 0x10 below generation 8 and up to 0x40 from
\* generation 8 on; a value out of range is reported and the sequence still
\* completes, with the GMCH value as read: the published size and the
\* emulated register are those of no override.
C7_OverrideRange ==
    (ret.op = "bar4" /\ ret.bridge = "ok") =>
      /\ ret.path = "done"
      /\ IF vdev.igd_gms > GmsLimit(ret.gen)
         THEN /\ CalledIn(io, InvalidGmsReport)
              /\ ret.gmch = ret.gmch_read
              /\ pci_get_long(vdev.config, IGD_GMCH) = ret.gmch_read
              /\ BdsmSizeFile = Bytes64MiB(SizeMiB(ret.gen, ret.gmch_read))
         ELSE ~CalledIn(io, InvalidGmsReport)

C7_Witness ==
    /\ Bar4Done
    /\ ret.gen = 7
    /\ vdev.igd_gms = \h11
    /\ CalledIn(io, InvalidGmsReport)
    /\ ret.gmch = ret.gmch_read

\* the bits of a GMCH value outside the GMS field
OutsideGms(gen, gmch) ==
    IF gen < 8 THEN <<gmch[1] % 8, gmch[2], gmch[3], gmch[4]>>
    ELSE <<gmch[1], 0, gmch[3], gmch[4]>>

\* C8: a non-zero x-igd-gms value v within the generation's range publishes
\* exactly v * 32 MiB and replaces only the GMS field of the GMCH value read;
\* 0 leaves the value read in force.
C8_OverrideUnits ==
    Bar4Done =>
      IF vdev.igd_gms = 0
      THEN /\ ret.gmch = ret.gmch_read
           /\ BdsmSizeFile = Bytes64MiB(SizeMiB(ret.gen, ret.gmch_read))
      ELSE vdev.igd_gms <= GmsLimit(ret.gen) =>
             /\ BdsmSizeFile = Bytes64MiB(vdev.igd_gms * 32)
             /\ GmsField(ret.gen, ret.gmch) = vdev.igd_gms
             /\ OutsideGms(ret.gen, ret.gmch) = OutsideGms(ret.gen, ret.gmch_read)

C8_Witness ==
    /\ Bar4Done
    /\ ret.gen = 9
    /\ vdev.igd_gms = \h40
    /\ ret.gmch_read[2] = \hf5
    /\ ret.gmch[2] = \h40
    /\ BdsmSizeFile = Bytes64MiB(2048)

\* C9: every call of vfio_pci_igd_setup_opregion on a hot-added device fails
\* with the hotplug error, makes no call (no region query, allocation, read or
\* publication) and changes nothing of the device or the firmware
\* configuration.
C9_HotplugOpregion ==
    [][(ret'.op = "opregion" /\ vdev.hotplugged)
       => /\ ~ret'.ok
          /\ ret'.opregion = "hotplugged"
          /\ ret'.err = "IGD OpRegion is not supported on hotplugged device"
          /\ io' = <<>>
          /\ vdev' = vdev
          /\ fw_cfg' = fw_cfg
          /\ bus' = bus]_vars

C9_Witness ==
    /\ ret.op = "opregion"
    /\ vdev.hotplugged
    /\ ~ret.ok
    /\ "bar4" \in probed
    /\ io = <<>>

\* a device that is not a companion bridge sits at 00:1f.0
AddressConflict ==
    /\ pci_find_device(bus, PCI_DEVFN(31, 0)).obj # "none"
    /\ pci_find_device(bus, PCI_DEVFN(31, 0)).type # TYPE_LPC_BRIDGE

BridgeWrites ==
    {"pread:lpc", "pread:host", "pci_create_simple:" \o TYPE_LPC_BRIDGE}

\* C10: vfio_pci_igd_setup_lpc_bridge on a hot-added device, with a foreign
\* device at 00:1f.0, or without the LPC or the host bridge region, fails with
\* an error, leaves every device on the bus as it was, creates no companion
\* and reads nothing.
C10_BridgePreconditions ==
    [][(/\ ret'.op = "bridge"
        /\ \/ vdev.hotplugged
           \/ AddressConflict
           \/ ret'.bridge \in {"no_lpc_region", "no_host_region"})
       => /\ ~ret'.ok
          /\ ret'.err # ""
          /\ bus' = bus
          /\ vdev' = vdev
          /\ ~CalledIn(io', BridgeWrites)]_vars

C10_Witness ==
    /\ ret.op = "bridge"
    /\ ret.bridge = "conflict"
    /\ ~ret.ok
    /\ bus[PCI_DEVFN(31, 0)] = DevForeignLpc

\* the returns of the region-4 probe that give up legacy mode
AbortPaths ==
    {"unsupported", "no_rom", "hotplugged", "vga_failed", "opregion_failed",
     "bridge_failed"}

\* the GMCH and BDSM bytes of a config-space array
StolenRegs(arr) ==
    <<pci_get_long(arr, IGD_GMCH), pci_get_long(arr, IGD_BDSM),
      pci_get_quad(arr, IGD_BDSM_GEN11)>>

\* C11: a region-4 probe that returns on an abort path (unsupported
\* generation, no ROM, hot-added, VGA failure, OpRegion failure, bridge
\* failure) returns with a failure noted, publishes no "etc/igd-bdsm-size" and
\* leaves the GMCH and BDSM config, write-mask and emulated bytes as they were.
C11_AbortGrantsNothing ==
    [][(ret'.op = "bar4" /\ ret'.path \in AbortPaths)
       => /\ ~ret'.ok
          /\ fw_cfg'["etc/igd-bdsm-size"] = fw_cfg["etc/igd-bdsm-size"]
          /\ fw_cfg'["etc/igd-bdsm-size"] = NoFile
          /\ ~CalledIn(io', {"fw_cfg_add_file:etc/igd-bdsm-size"})
          /\ StolenRegs(vdev'.config) = StolenRegs(vdev.config)
          /\ StolenRegs(vdev'.wmask) = StolenRegs(vdev.wmask)
          /\ StolenRegs(vdev'.emulated_config_bits)
               = StolenRegs(vdev.emulated_config_bits)]_vars

C11_Witness ==
    /\ ret.op = "bar4"
    /\ ret.path = "bridge_failed"
    /\ ret.opregion = "ok"
    /\ fw_cfg["etc/igd-bdsm-size"] = NoFile
    /\ fw_cfg["etc/igd-opregion"] # NoFile
    /\ StolenRegs(vdev.emulated_config_bits) = StolenRegs(InitEmulated)

\* the ASLS bytes of the device's config, write mask and emulated bits
AslsRegs(v) ==
    <<pci_get_long(v.config, IGD_ASLS), pci_get_long(v.wmask, IGD_ASLS),
      pci_get_long(v.emulated_config_bits, IGD_ASLS)>>
AslsArmed == <<<<0, 0, 0, 0>>, <<255, 255, 255, 255>>, <<255, 255, 255, 255>>>>
\* the calls of a successful OpRegion setup, in order
OpregionCalls ==
    <<"get_dev_region_info:opregion", "g_malloc0", "pread:opregion",
      "fw_cfg_add_file:etc/igd-opregion">>
\* C12: OpRegion setup, called on its own or by the region-4 probe, publishes
\* "etc/igd-opregion" (the full region) and arms ASLS (0, writable, emulated)
\* exactly when it succeeds: the device is not hot-added, the region was
\* queried, and the buffer was allocated and read in full.  Otherwise nothing
\* is published and ASLS and its masks stay; without the region no buffer is
\* allocated; after a short or failed read the buffer is freed and the
\* device's OpRegion pointer is null.
C12_OpregionPublishedOnSuccess ==
    [][(ret'.op \in {"opregion", "bar4"} /\ ret'.opregion # "not_called")
       => /\ ret'.op = "opregion" => (ret'.ok <=> ret'.opregion = "ok")
          /\ ret'.op = "opregion" => (ret'.opregion = "hotplugged" <=> vdev.hotplugged)
          /\ ret'.opregion \in {"ok", "hotplugged", "no_region", "read_failed"}
          /\ IF ret'.opregion = "ok"
             THEN /\ ~vdev.hotplugged
                  /\ \E k \in 0 .. Len(io') - 4 :
                       [i \in 1 .. 4 |-> io'[k + i]] = OpregionCalls
                  /\ fw_cfg'["etc/igd-opregion"] = GetBytes(PhysOpRegion, 1, OpRegionSize)
                  /\ vdev'.igd_opregion = GetBytes(PhysOpRegion, 1, OpRegionSize)
                  /\ AslsRegs(vdev') = AslsArmed
             ELSE /\ fw_cfg'["etc/igd-opregion"] = fw_cfg["etc/igd-opregion"]
                  /\ AslsRegs(vdev') = AslsRegs(vdev)
                  /\ ~CalledIn(io', {"fw_cfg_add_file:etc/igd-opregion"})
                  /\ ret'.opregion \in {"hotplugged", "no_region"}
                       => /\ ~CalledIn(io', {"g_malloc0", "pread:opregion"})
                          /\ vdev'.igd_opregion = vdev.igd_opregion
                  /\ ret'.opregion = "read_failed"
                       => /\ CalledIn(io', {"g_malloc0"})
                          /\ CalledIn(io', {"g_free"})
                          /\ vdev'.igd_opregion = <<>>]_vars

C12_Witness ==
    /\ ret.op = "opregion"
    /\ ret.ok
    /\ fw_cfg["etc/igd-opregion"] = GetBytes(PhysOpRegion, 1, OpRegionSize)
    /\ AslsRegs(vdev) = AslsArmed
    /\ io = OpregionCalls

\* the steps of the legacy-mode sequence, numbered in the claimed order:
\* 1 generation check, 2 ROM check, 3 hotplug check, 4 VGA enable (with the
\* GMCH read that decides it), 5 OpRegion setup, 6 bridge setup, 7 override,
\* 8 size publication, 9 GMCH/BDSM emulation
StepOfPath ==
    [p \in AbortPaths \cup {"done"} |->
       CASE p = "unsupported" -> 1
         [] p = "no_rom" -> 2
         [] p = "hotplugged" -> 3
         [] p = "vga_failed" -> 4
         [] p = "opregion_failed" -> 5
         [] p = "bridge_failed" -> 6
         [] p = "done" -> 9]
OpregionStepCalls ==
    {"get_dev_region_info:opregion", "g_malloc0", "pread:opregion", "g_free",
     "fw_cfg_add_file:etc/igd-opregion",
     "error_report:IGD OpRegion is not supported on hotplugged device",
     "error_report:Device does not supports IGD OpRegion feature",
     "error_report:failed to read IGD OpRegion"}
BridgeStepCalls ==
    {"get_dev_region_info:lpc_cfg", "get_dev_region_info:host_cfg",
     "pci_create_simple:vfio-pci-igd-lpc-bridge", "pread:lpc", "pread:host",
     "error_report:IGD copy failed", "error_report:Can't find host bridge",
     "error_report:IGD LPC is not supported on hotplugged device",
     "error_report:Cannot create LPC bridge due to existing device at 1f.0",
     "error_report:IGD LPC bridge access is not supported by kernel",
     "error_report:IGD host bridge access is not supported by kernel",
     "error_report:Failed to create/modify LPC bridge for IGD",
     "error_report:Failed to modify host bridge for IGD"}
\* the step a logged call belongs to (0: none of the sequence)
StepOfCall(c) ==
    CASE c = "error_report:unsupported in legacy mode" -> 1
      [] c \in {"vfio_get_region_info:rom",
                "error_report:no ROM, legacy mode disabled"} -> 2
      [] c = "error_report:hotplugged, ROM disabled" -> 3
      [] c \in {"vfio_pci_read_config:GMCH", "vfio_populate_vga",
                "error_report:failed to enable VGA access"} -> 4
      [] c \in OpregionStepCalls -> 5
      [] c \in BridgeStepCalls -> 6
      [] c = "error_report:Invalid parameter x-igd-gms" -> 7
      [] c = "fw_cfg_add_file:etc/igd-bdsm-size" -> 8
      [] OTHER -> 0
Bar4Emulated(v, gen) ==
    /\ pci_get_long(v.emulated_config_bits, IGD_GMCH) = BVOnes(4)
    /\ IF gen < 11
       THEN pci_get_long(v.emulated_config_bits, IGD_BDSM) = BVOnes(4)
       ELSE pci_get_quad(v.emulated_config_bits, IGD_BDSM_GEN11) = BVOnes(8)

\* C13: an eligible region-4 probe runs its steps in the order generation
\* check, ROM check, hotplug check, VGA enable, OpRegion setup, bridge setup,
\* override, size publication, register emulation.  The calls it makes are in
\* that order, none belongs to a step after the one that failed, each step
\* reached had every earlier step succeed, VGA is enabled exactly when the
\* sequence got that far with bit 0x2 of the GMCH read clear and VGA not yet
\* set up, and what earlier steps did stays (after a bridge failure the
\* OpRegion is published and ASLS armed).
C13_FixedOrder ==
    [][(ret'.op = "bar4" /\ ret'.path # "gated")
       => /\ ret'.path \in DOMAIN StepOfPath
          /\ LET last == StepOfPath[ret'.path]
                 vga_wanted == /\ BVAnd(ret'.gmch_read, BV(2, 4)) = BVZero(4)
                               /\ ~vdev.vga
             IN /\ \A i \in 1 .. Len(io') : StepOfCall(io'[i]) \in 1 .. last
                /\ \A i \in 1 .. Len(io') - 1 :
                     StepOfCall(io'[i]) <= StepOfCall(io'[i + 1])
                /\ last = 1 <=> ret'.gen = -1
                /\ last >= 2 => io'[1] = "vfio_get_region_info:rom"
                /\ last = 2 => ~vdev.romfile
                /\ last >= 3 => (last = 3 <=> vdev.hotplugged)
                /\ last >= 4 => /\ CalledIn(io', {"vfio_pci_read_config:GMCH"})
                                /\ ret'.gmch_read = vdev.hw_gmch
                /\ CalledIn(io', {"vfio_populate_vga"}) <=> (last >= 4 /\ vga_wanted)
                /\ last = 4 => (vga_wanted /\ ~vdev'.vga)
                /\ last >= 5 => /\ vga_wanted => vdev'.vga
                                /\ ret'.opregion # "not_called"
                                /\ last = 5 <=> ret'.opregion # "ok"
                /\ last < 5 => ret'.opregion = "not_called"
                /\ last >= 6 => /\ fw_cfg'["etc/igd-opregion"] # NoFile
                                /\ AslsRegs(vdev') = AslsArmed
                                /\ ret'.bridge # "not_called"
                                /\ last = 6 <=> ret'.bridge # "ok"
                /\ last < 6 => /\ ret'.bridge = "not_called"
                               /\ bus' = bus
                /\ last = 9 => /\ ret'.ok
                               /\ CalledIn(io', {"fw_cfg_add_file:etc/igd-bdsm-size"})
                               /\ fw_cfg'["etc/igd-bdsm-size"] # NoFile
                               /\ Bar4Emulated(vdev', ret'.gen)
                /\ last < 9 => /\ ~ret'.ok
                               /\ fw_cfg'["etc/igd-bdsm-size"] = fw_cfg["etc/igd-bdsm-size"]
                               /\ StolenRegs(vdev'.emulated_config_bits)
                                    = StolenRegs(vdev.emulated_config_bits)]_vars

C13_Witness ==
    /\ ret.op = "bar4"
    /\ ret.path = "bridge_failed"
    /\ CalledIn(io, {"vfio_populate_vga"})
    /\ vdev.vga
    /\ fw_cfg["etc/igd-opregion"] # NoFile
    /\ AslsRegs(vdev) = AslsArmed
    /\ fw_cfg["etc/igd-bdsm-size"] = NoFile

\* the generation of a device ID, from the 0xa84 rule and the table
DeviceGen(id) == IF MatchesA84(id) THEN 9 ELSE ListedGen(TopByte(id))
\* the mirror bindings of the claim: [offset, config_offset, size]
MirrorOf(q) == <<q.offset, q.config_offset, q.size>>
GgcBinding == <<\h108040, \h50, 2>>
BdsmBinding(gen) == IF gen < 11 THEN <<\h1080C0, \h5c, 4>> ELSE <<\h1080C0, \hc0, 8>>

BdsmOffsets == (\h5c .. \h5f) \cup (\hc0 .. \hc7)
\* the BDSM bindings the region-0 probe put in the quirk list
BdsmMirrors ==
    {vdev.quirks[i] : i \in {j \in 1 .. Len(vdev.quirks) :
                               vdev.quirks[j].name = "vfio-igd-bdsm-quirk"}}
\* both probes have done their work on the device
BothProbesDone == vdev.quirks # <<>> /\ BdsmSizeFile # NoFile

\* C16: once both probes have run on a device, in either order, the config
\* bytes the region-0 BDSM mirror is bound to (0x5c, 4 bytes, or 0xc0,
\* 8 bytes) are exactly the BDSM bytes the region-4 probe zeroed and made
\* writable and emulated.
C16_HandlersAgreeOnBdsm ==
    BothProbesDone =>
      /\ DeviceGen(vdev.device_id) >= 6
      /\ Cardinality(BdsmMirrors) = 1
      /\ \A q \in BdsmMirrors :
           LET reg == q.config_offset .. q.config_offset + q.size - 1
           IN  /\ <<q.config_offset, q.size>> \in {<<\h5c, 4>>, <<\hc0, 8>>}
               /\ \A o \in BdsmOffsets :
                    vdev.emulated_config_bits[o] = 255 <=> o \in reg
               /\ \A o \in BdsmOffsets \ reg :
                    /\ vdev.emulated_config_bits[o] = InitEmulated[o]
                    /\ vdev.config[o] = InitConfig[o]
               /\ \A o \in reg : vdev.config[o] = 0 /\ vdev.wmask[o] = 255

C16_Witness ==
    /\ BothProbesDone
    /\ ret.op = "bar0"
    /\ ret.gen = 11
    /\ pci_get_quad(vdev.emulated_config_bits, IGD_BDSM_GEN11) = BVOnes(8)
    /\ \E q \in BdsmMirrors : q.config_offset = IGD_BDSM_GEN11 /\ q.size = 8

\* the same with the region-0 probe first
C16_WitnessBar0First ==
    /\ BothProbesDone
    /\ ret.op = "bar4"
    /\ ret.gen < 11
    /\ pci_get_long(vdev.emulated_config_bits, IGD_BDSM) = BVOnes(4)
    /\ \E q \in BdsmMirrors : q.config_offset = IGD_BDSM /\ q.size = 4

\* how many entries of a call log are the call c
RECURSIVE CountCalls(_, _)
CountCalls(log, c) ==
    IF log = <<>> THEN 0
    ELSE (IF log[1] = c THEN 1 ELSE 0) + CountCalls(Tail(log), c)
\* field i of the LPC list holds the physical bridge's bytes in config array cfg
LpcFieldCopied(cfg, i) ==
    LET f == igd_lpc_bridge_infos[i]
    IN  GetBytes(cfg, f.offset, f.len) = GetBytes(PhysLpcCfg, f.offset, f.len)
LpcCompanionAt1f(b) ==
    /\ pci_find_device(b, PCI_DEVFN(31, 0)).obj # "none"
    /\ pci_find_device(b, PCI_DEVFN(31, 0)).type = TYPE_LPC_BRIDGE

\* C17 as stated: bridge setup reads into the host bridge only after the
\* companion LPC bridge exists at 00:1f.0 and all five of its fields were
\* copied; the LPC reads come first, one per field in list order; a failed
\* field copy is the last thing the setup does and makes it fail; the fields
\* copied before the failure and a companion already created stay.
C17_LpcBeforeHost ==
    [][ret'.op = "bridge"
       => LET lpc == pci_find_device(bus', PCI_DEVFN(31, 0))
              k == CountCalls(io', "pread:lpc")
          IN  /\ (CalledIn(io', {"pread:host"})
                  \/ bus'[PCI_DEVFN(0, 0)] # bus[PCI_DEVFN(0, 0)])
                   => /\ LpcCompanionAt1f(bus')
                      /\ k = Len(igd_lpc_bridge_infos)
                      /\ \A i \in 1 .. Len(igd_lpc_bridge_infos) :
                           LpcFieldCopied(lpc.config, i)
              /\ \A i, j \in 1 .. Len(io') :
                   (io'[i] = "pread:lpc" /\ io'[j] = "pread:host") => i < j
              /\ \A i \in 1 .. Len(io') :
                   io'[i] = "error_report:IGD copy failed" => i = Len(io')
              /\ CalledIn(io', {"error_report:IGD copy failed"}) => ~ret'.ok
              /\ k > 0 => /\ LpcCompanionAt1f(bus')
                          /\ \A i \in 1 .. k - 1 : LpcFieldCopied(lpc.config, i)
              /\ CalledIn(io', {"pci_create_simple:" \o TYPE_LPC_BRIDGE})
                   => LpcCompanionAt1f(bus')]_vars

====
